---- MODULE Spec2Model ----
(***************************************************************************)
(* Tournament registration bot (src/discord_bot.py).                       *)
(*                                                                         *)
(* The process keeps one record, `data` (slots, teams, confirmed), in a    *)
(* module-level variable and writes it to tourney_data.json after every    *)
(* mutation.  Each command handler runs its checks, its mutation and its   *)
(* save without an await in between, so one handler is one step here.      *)
(* Strings are sequences of character codes, so that str.lower() is a real *)
(* conversion.                                                             *)
(***************************************************************************)
EXTENDS Integers, Sequences, FiniteSets, TLC

VARIABLES data, file, inv, resp, regsSinceSet, tasks

vars == <<data, file, inv, resp, regsSinceSet, tasks>>

(***************************************************************************)
(* Bounds of the model.                                                    *)
(***************************************************************************)
\* largest slot count an administrator passes to !setslots
MaxSlots == 2
\* the most negative slot count passed to !setslots is -MaxNeg
MaxNeg == 1

\* Discord user ids of the message authors
Users == {101, 102}

\* the arguments of the !register messages that are sent:
\*   !register al p q      !register AL      !register Be q p      !register g p
\* "al" and "AL" are equal under lower(), "Be" and "g" are further names
RegisterArgs ==
    { [team_name |-> <<97, 108>>, players |-> <<"p", "q">>],
      [team_name |-> <<65, 76>>, players |-> <<>>],
      [team_name |-> <<66, 101>>, players |-> <<"q", "p">>],
      [team_name |-> <<103>>, players |-> <<"p">>] }

SlotArgs == (0 - MaxNeg) .. MaxSlots

(***************************************************************************)
(* str.lower(), on ASCII codes.                                            *)
(***************************************************************************)
LowerChar(c) == IF c >= 65 /\ c <= 90 THEN c + 32 ELSE c

Lower(s) == [i \in 1..Len(s) |-> LowerChar(s[i])]

(***************************************************************************)
(* The record and the file.                                                *)
(***************************************************************************)
DefaultRecord == [slots |-> 0, teams |-> <<>>, confirmed |-> <<>>]

Absent == <<[t |-> "absent", k |-> "", s |-> <<>>, n |-> 0]>>

Punct(c) == [t |-> c, k |-> "", s |-> <<>>, n |-> 0]
Key(name) == [t |-> "key", k |-> name, s |-> <<>>, n |-> 0]
Str(s) == [t |-> "str", k |-> "", s |-> s, n |-> 0]
PStr(p) == [t |-> "pstr", k |-> p, s |-> <<>>, n |-> 0]
Num(n) == [t |-> "num", k |-> "", s |-> <<>>, n |-> n]

RECURSIVE DumpStrs(_)
DumpStrs(ss) ==
    IF ss = <<>> THEN <<>> ELSE <<Str(Head(ss))>> \o DumpStrs(Tail(ss))

RECURSIVE DumpPlayers(_)
DumpPlayers(ps) ==
    IF ps = <<>> THEN <<>> ELSE <<PStr(Head(ps))>> \o DumpPlayers(Tail(ps))

DumpTeam(team) ==
    <<Punct("{"), Key("team_name"), Str(team.team_name),
      Key("players"), Punct("[")>> \o DumpPlayers(team.players) \o
    <<Punct("]"), Key("captain_id"), Num(team.captain_id), Punct("}")>>

RECURSIVE DumpTeams(_)
DumpTeams(ts) ==
    IF ts = <<>> THEN <<>> ELSE DumpTeam(Head(ts)) \o DumpTeams(Tail(ts))

\* json.dump(data, f): the document as its token stream
json_dump(d) ==
    <<Punct("{"), Key("slots"), Num(d.slots), Key("teams"), Punct("[")>> \o
    DumpTeams(d.teams) \o
    <<Punct("]"), Key("confirmed"), Punct("[")>> \o DumpStrs(d.confirmed) \o
    <<Punct("]"), Punct("}")>>

\* save_data leaving the confirmed list out of the document
save_data_without_confirmed(d) == json_dump([d EXCEPT !.confirmed = <<>>])

\* save_data: open(DATA_FILE, 'w') truncates, then the document is written
save_data(d) == json_dump(d)

RECURSIVE ParseStrs(_, _, _)
ParseStrs(toks, i, acc) ==
    IF toks[i].t = "str"
    THEN ParseStrs(toks, i + 1, Append(acc, toks[i].s))
    ELSE [val |-> acc, pos |-> i]

RECURSIVE ParsePlayers(_, _, _)
ParsePlayers(toks, i, acc) ==
    IF toks[i].t = "pstr"
    THEN ParsePlayers(toks, i + 1, Append(acc, toks[i].k))
    ELSE [val |-> acc, pos |-> i]

\* one team object, starting at its "{"
ParseTeam(toks, i) ==
    LET ps == ParsePlayers(toks, i + 5, <<>>)
    IN [val |-> [team_name |-> toks[i + 2].s,
                 players |-> ps.val,
                 captain_id |-> toks[ps.pos + 2].n],
        pos |-> ps.pos + 4]

RECURSIVE ParseTeams(_, _, _)
ParseTeams(toks, i, acc) ==
    IF toks[i].t = "{"
    THEN LET r == ParseTeam(toks, i)
         IN ParseTeams(toks, r.pos, Append(acc, r.val))
    ELSE [val |-> acc, pos |-> i]

\* json.load(f)
json_load(toks) ==
    LET ts == ParseTeams(toks, 6, <<>>)
        cs == ParseStrs(toks, ts.pos + 3, <<>>)
    IN [slots |-> toks[3].n, teams |-> ts.val, confirmed |-> cs.val]

\* the kind of the token at position i, "eof" past the end
At(toks, i) == IF i \in 1..Len(toks) THEN toks[i].t ELSE "eof"

\* json.load accepts a text that is one well-formed value: the position
\* after the value that starts at i, 0 when there is none
RECURSIVE ValueEnd(_, _), ElementsEnd(_, _), MembersEnd(_, _)
ValueEnd(toks, i) ==
    IF At(toks, i) \in {"num", "str", "pstr"} THEN i + 1
    ELSE IF At(toks, i) = "[" THEN ElementsEnd(toks, i + 1)
    ELSE IF At(toks, i) = "{" THEN MembersEnd(toks, i + 1)
    ELSE 0

ElementsEnd(toks, i) ==
    IF At(toks, i) = "]" THEN i + 1
    ELSE LET e == ValueEnd(toks, i)
         IN IF e = 0 THEN 0 ELSE ElementsEnd(toks, e)

MembersEnd(toks, i) ==
    IF At(toks, i) = "}" THEN i + 1
    ELSE IF At(toks, i) = "key"
    THEN LET e == ValueEnd(toks, i + 1)
         IN IF e = 0 THEN 0 ELSE MembersEnd(toks, e)
    ELSE 0

json_valid(toks) == ValueEnd(toks, 1) = Len(toks) + 1

\* json.load raises JSONDecodeError, and load_data has no try around it
load_raises(f) == f # Absent /\ ~json_valid(f)

\* load_data: the file's record if the file exists, else the default record
load_data(f) == IF f # Absent THEN json_load(f) ELSE DefaultRecord

(***************************************************************************)
(* Invocations and responses.                                              *)
(***************************************************************************)
\* the command being handled: its name and the inputs its handler reads
NoInv ==
    [cmd |-> "none", author |-> 0, admin |-> FALSE, number |-> 0,
     team_name |-> <<>>, malformed |-> FALSE]

Invocation(cmd, author, admin) ==
    [NoInv EXCEPT !.cmd = cmd, !.author = author, !.admin = admin]

\* what was sent to the channel while the last message was handled: the
\* number of ctx.send calls, and the text and values of the message
NoResp ==
    [sent |-> 0, kind |-> "none", number |-> 0, team_name |-> <<>>,
     players |-> <<>>, filled |-> 0, total |-> 0, listing |-> <<>>]

\* one ctx.send
Response(kind) == [NoResp EXCEPT !.sent = 1, !.kind = kind]

\* the texts the handlers send
PermissionDenied == "You don't have permission to use this command."
SlotsSet == "Tournament slots set to {number}."
AllSlotsFull == "All slots are full."
DuplicateTeamName == "This team name is already registered."
Registered == "Team '{team_name}' registered with players: {players}"
AlreadyConfirmed == "Your team is already confirmed."
Confirmed == "Team '{team_name}' confirmed."
NoTeamForCaller == "You don't have a registered team."
SlotsFilled == "{filled}/{total} slots filled."
NoTeams == "No teams registered yet."
RegisteredTeams == "Registered Teams:"
ResetDone == "Tournament data has been reset."
CommandNotFound == "Command not found. Use !help to see available commands."
ErrorOccurred == "An error occurred: {error}"
HelpEmbed == "Tournament Bot Commands"

\* the decorator left off a handler: every author passes
has_permissions_missing(admin) == TRUE

\* commands.has_permissions(administrator=True)
has_permissions(admin) == admin

\* on_command_error, MissingPermissions branch
MissingPermissions == Response(PermissionDenied)

(***************************************************************************)
(* The checks of the handlers.                                             *)
(***************************************************************************)
\* the capacity test with > for >=
SlotsFull_off_by_one(d) == Len(d.teams) > d.slots

\* the capacity test against the slot count alone
SlotsFull_no_slots(d) == d.slots <= 0

\* register: len(data["teams"]) >= data["slots"]
SlotsFull(d) == Len(d.teams) >= d.slots

\* the scan comparing the names as written
NameTaken_case_sensitive(d, team_name) ==
    \E i \in 1..Len(d.teams) : team_name = d.teams[i].team_name

\* the scan lower-casing the new name only
NameTaken_one_side_lowered(d, team_name) ==
    \E i \in 1..Len(d.teams) : Lower(team_name) = d.teams[i].team_name

\* register: the scan for a team of the same lower-cased name
NameTaken(d, team_name) ==
    \E i \in 1..Len(d.teams) : Lower(team_name) = Lower(d.teams[i].team_name)

\* the captain test with != for ==
CaptainOf_negated(d, author) == {i \in 1..Len(d.teams) : d.teams[i].captain_id # author}

\* confirm: the teams whose captain is the author, by position
CaptainOf(d, author) == {i \in 1..Len(d.teams) : d.teams[i].captain_id = author}

\* the membership test on the lower-cased name
IsConfirmed_lowered(d, team_name) ==
    \E j \in 1..Len(d.confirmed) : d.confirmed[j] = Lower(team_name)

\* confirm: team["team_name"] in data["confirmed"]
IsConfirmed(d, team_name) ==
    \E j \in 1..Len(d.confirmed) : d.confirmed[j] = team_name

\* slots: (filled, total)
SlotsStatus(d) == [filled |-> Len(d.teams), total |-> d.slots]

\* the loop keeping the last match instead of returning at the first
Max(S) == CHOOSE x \in S : \A y \in S : x >= y

\* confirm: the loop returns at the first team of the author
Min(S) == CHOOSE x \in S : \A y \in S : x <= y

\* the handlers that are suspended at an await, by task; none when the
\* messages are handled one after the other
Tasks == {1, 2}

Idle ==
    [cmd |-> "idle", pc |-> 0, author |-> 0, number |-> 0,
     team_name |-> <<>>, players |-> <<>>]

NoTasks == [t \in Tasks |-> Idle]

(***************************************************************************)
(* Init: data = load_data() with no data file yet.                         *)
(***************************************************************************)
Init ==
    /\ tasks = NoTasks
    /\ file = Absent
    /\ data = load_data(Absent)
    /\ inv = NoInv
    /\ resp = NoResp
    /\ regsSinceSet = 0

(***************************************************************************)
(* The command handlers.                                                   *)
(***************************************************************************)
\* setslots refusing to go below the number of registered teams
setslots_clamped(admin, number) ==
    /\ UNCHANGED tasks
    /\ inv' = [Invocation("setslots", 0, admin) EXCEPT !.number = number]
    /\ IF has_permissions(admin)
       THEN /\ data' = [data EXCEPT !.slots =
                          IF number < Len(data.teams) THEN Len(data.teams) ELSE number]
            /\ file' = save_data(data')
            /\ resp' = [Response(SlotsSet)
                          EXCEPT !.number = number]
            /\ regsSinceSet' = 0
       ELSE /\ resp' = MissingPermissions
            /\ UNCHANGED <<data, file, regsSinceSet>>

setslots(admin, number) ==
    /\ UNCHANGED tasks
    /\ inv' = [Invocation("setslots", 0, admin) EXCEPT !.number = number]
    /\ IF has_permissions(admin)
       THEN /\ data' = [data EXCEPT !.slots = number]
            /\ file' = save_data(data')
            /\ resp' = [Response(SlotsSet)
                          EXCEPT !.number = number]
            /\ regsSinceSet' = 0
       ELSE /\ resp' = MissingPermissions
            /\ UNCHANGED <<data, file, regsSinceSet>>

\* register inserting the new team at the front of the list
register_prepends(author, team_name, players) ==
    /\ UNCHANGED tasks
    /\ inv' = [Invocation("register", author, FALSE)
                 EXCEPT !.team_name = team_name]
    /\ IF SlotsFull(data)
       THEN /\ resp' = Response(AllSlotsFull)
            /\ UNCHANGED <<data, file, regsSinceSet>>
       ELSE IF NameTaken(data, team_name)
       THEN /\ resp' = Response(DuplicateTeamName)
            /\ UNCHANGED <<data, file, regsSinceSet>>
       ELSE /\ data' = [data EXCEPT !.teams =
                          <<[team_name |-> team_name,
                             players |-> players,
                             captain_id |-> author]>> \o @]
            /\ file' = save_data(data')
            /\ resp' = [Response(Registered)
                          EXCEPT !.team_name = team_name, !.players = players]
            /\ regsSinceSet' = regsSinceSet + 1

\* register scanning the names before testing the capacity
register_name_first(author, team_name, players) ==
    /\ UNCHANGED tasks
    /\ inv' = [Invocation("register", author, FALSE)
                 EXCEPT !.team_name = team_name]
    /\ IF NameTaken(data, team_name)
       THEN /\ resp' = Response(DuplicateTeamName)
            /\ UNCHANGED <<data, file, regsSinceSet>>
       ELSE IF SlotsFull(data)
       THEN /\ resp' = Response(AllSlotsFull)
            /\ UNCHANGED <<data, file, regsSinceSet>>
       ELSE /\ data' = [data EXCEPT !.teams =
                          Append(@, [team_name |-> team_name,
                                     players |-> players,
                                     captain_id |-> author])]
            /\ file' = save_data(data')
            /\ resp' = [Response(Registered)
                          EXCEPT !.team_name = team_name, !.players = players]
            /\ regsSinceSet' = regsSinceSet + 1

register(author, team_name, players) ==
    /\ UNCHANGED tasks
    /\ inv' = [Invocation("register", author, FALSE)
                 EXCEPT !.team_name = team_name]
    /\ IF SlotsFull(data)
       THEN /\ resp' = Response(AllSlotsFull)
            /\ UNCHANGED <<data, file, regsSinceSet>>
       ELSE IF NameTaken(data, team_name)
       THEN /\ resp' = Response(DuplicateTeamName)
            /\ UNCHANGED <<data, file, regsSinceSet>>
       ELSE /\ data' = [data EXCEPT !.teams =
                          Append(@, [team_name |-> team_name,
                                     players |-> players,
                                     captain_id |-> author])]
            /\ file' = save_data(data')
            /\ resp' = [Response(Registered)
                          EXCEPT !.team_name = team_name, !.players = players]
            /\ regsSinceSet' = regsSinceSet + 1

\* confirm without its save_data call
confirm_no_save(author) ==
    /\ UNCHANGED tasks
    /\ inv' = Invocation("confirm", author, FALSE)
    /\ UNCHANGED <<regsSinceSet, file>>
    /\ IF CaptainOf(data, author) = {}
       THEN /\ resp' = Response(NoTeamForCaller)
            /\ UNCHANGED data
       ELSE LET team == data.teams[Min(CaptainOf(data, author))]
            IN IF IsConfirmed(data, team.team_name)
               THEN /\ resp' = Response(AlreadyConfirmed)
                    /\ UNCHANGED data
               ELSE /\ data' = [data EXCEPT !.confirmed = Append(@, team.team_name)]
                    /\ resp' = [Response(Confirmed)
                                  EXCEPT !.team_name = team.team_name]

confirm(author) ==
    /\ UNCHANGED tasks
    /\ inv' = Invocation("confirm", author, FALSE)
    /\ UNCHANGED regsSinceSet
    /\ IF CaptainOf(data, author) = {}
       THEN /\ resp' = Response(NoTeamForCaller)
            /\ UNCHANGED <<data, file>>
       ELSE LET team == data.teams[Min(CaptainOf(data, author))]
            IN IF IsConfirmed(data, team.team_name)
               THEN /\ resp' = Response(AlreadyConfirmed)
                    /\ UNCHANGED <<data, file>>
               ELSE /\ data' = [data EXCEPT !.confirmed = Append(@, team.team_name)]
                    /\ file' = save_data(data')
                    /\ resp' = [Response(Confirmed)
                                  EXCEPT !.team_name = team.team_name]

slots ==
    /\ UNCHANGED tasks
    /\ inv' = Invocation("slots", 0, FALSE)
    /\ resp' = [Response(SlotsFilled)
                  EXCEPT !.filled = SlotsStatus(data).filled,
                         !.total = SlotsStatus(data).total]
    /\ UNCHANGED <<data, file, regsSinceSet>>

teams(admin) ==
    /\ UNCHANGED tasks
    /\ inv' = Invocation("teams", 0, admin)
    /\ UNCHANGED <<data, file, regsSinceSet>>
    /\ IF ~has_permissions(admin)
       THEN resp' = MissingPermissions
       ELSE IF data.teams = <<>>
       THEN resp' = Response(NoTeams)
       ELSE resp' = [Response(RegisteredTeams)
                       EXCEPT !.listing =
                         [i \in 1..Len(data.teams) |->
                            [team_name |-> data.teams[i].team_name,
                             players |-> data.teams[i].players]]]

\* reset clearing slots and teams, leaving the confirmed list
reset_keeps_confirmed(admin) ==
    /\ UNCHANGED tasks
    /\ inv' = Invocation("reset", 0, admin)
    /\ IF has_permissions(admin)
       THEN /\ data' = [data EXCEPT !.slots = 0, !.teams = <<>>]
            /\ file' = save_data(data')
            /\ resp' = Response(ResetDone)
            /\ regsSinceSet' = 0
       ELSE /\ resp' = MissingPermissions
            /\ UNCHANGED <<data, file, regsSinceSet>>

\* reset clearing the lists, leaving the slot count
reset_keeps_slots(admin) ==
    /\ UNCHANGED tasks
    /\ inv' = Invocation("reset", 0, admin)
    /\ IF has_permissions(admin)
       THEN /\ data' = [data EXCEPT !.teams = <<>>, !.confirmed = <<>>]
            /\ file' = save_data(data')
            /\ resp' = Response(ResetDone)
            /\ regsSinceSet' = 0
       ELSE /\ resp' = MissingPermissions
            /\ UNCHANGED <<data, file, regsSinceSet>>

reset(admin) ==
    /\ UNCHANGED tasks
    /\ inv' = Invocation("reset", 0, admin)
    /\ IF has_permissions(admin)
       THEN /\ data' = DefaultRecord
            /\ file' = save_data(data')
            /\ resp' = Response(ResetDone)
            /\ regsSinceSet' = 0
       ELSE /\ resp' = MissingPermissions
            /\ UNCHANGED <<data, file, regsSinceSet>>

help ==
    /\ UNCHANGED tasks
    /\ inv' = Invocation("help", 0, FALSE)
    /\ resp' = Response(HelpEmbed)
    /\ UNCHANGED <<data, file, regsSinceSet>>

\* a message with the prefix and a name that is no command: CommandNotFound
\* goes to on_command_error
unknown_command ==
    /\ UNCHANGED tasks
    /\ inv' = Invocation("unknown", 0, FALSE)
    /\ resp' = Response(CommandNotFound)
    /\ UNCHANGED <<data, file, regsSinceSet>>

\* !setslots with no number or with a word that int() rejects: the checks
\* run before the arguments are converted, then BadArgument or
\* MissingRequiredArgument goes to the last branch of on_command_error
setslots_malformed(admin) ==
    /\ UNCHANGED tasks
    /\ inv' = [Invocation("setslots", 0, admin) EXCEPT !.malformed = TRUE]
    /\ resp' = IF has_permissions(admin)
               THEN Response(ErrorOccurred) ELSE MissingPermissions
    /\ UNCHANGED <<data, file, regsSinceSet>>

\* !register with no team name: MissingRequiredArgument
register_malformed ==
    /\ UNCHANGED tasks
    /\ inv' = [Invocation("register", 0, FALSE) EXCEPT !.malformed = TRUE]
    /\ resp' = Response(ErrorOccurred)
    /\ UNCHANGED <<data, file, regsSinceSet>>

\* on_message for a direct message: message.guild is None, so the log line
\* raises AttributeError before process_commands and outside the try
on_message_direct ==
    /\ UNCHANGED tasks
    /\ inv' = Invocation("direct message", 0, FALSE)
    /\ resp' = NoResp
    /\ UNCHANGED <<data, file, regsSinceSet>>

\* the process is started again: data = load_data()
Restart ==
    /\ UNCHANGED tasks
    /\ data' = load_data(file)
    /\ inv' = NoInv
    /\ resp' = NoResp
    /\ UNCHANGED <<file, regsSinceSet>>

Next ==
    \/ \E adm \in BOOLEAN, n \in SlotArgs : setslots(adm, n)
    \/ \E a \in Users, r \in RegisterArgs : register(a, r.team_name, r.players)
    \/ \E a \in Users : confirm(a)
    \/ slots
    \/ \E adm \in BOOLEAN : teams(adm)
    \/ \E adm \in BOOLEAN : reset(adm)
    \/ help
    \/ unknown_command
    \/ \E adm \in BOOLEAN : setslots_malformed(adm)
    \/ register_malformed
    \/ on_message_direct
    \/ Restart

Spec == Init /\ [][Next]_vars

(***************************************************************************)
(* Handlers running concurrently.  discord.py runs each message's handler  *)
(* as its own asyncio task on one event loop, so a handler runs without    *)
(* interruption from one await to the next and other handlers run while it *)
(* is suspended in an await.  A handler is the sequence of its statements; *)
(* "send" is `await ctx.send(...)`, the only await the handlers have.      *)
(* The callers here have the administrator permission.                     *)
(***************************************************************************)
setslots_body == <<"set_slots", "save", "send">>

\* register sending its answer before it appends and saves
register_body_send_first == <<"check_capacity", "check_name", "send", "append", "save">>

register_body == <<"check_capacity", "check_name", "append", "save", "send">>

confirm_body == <<"find_team", "add_confirmed", "save", "send">>

reset_body == <<"clear", "save", "send">>

Body(cmd) ==
    CASE cmd = "setslots" -> setslots_body
      [] cmd = "register" -> register_body
      [] cmd = "confirm" -> confirm_body
      [] cmd = "reset" -> reset_body

\* the task suspended with pc as its next statement; once nothing is left
\* to run its locals are dead
Suspended(tk, pc) ==
    IF pc > Len(Body(tk.cmd))
    THEN [Idle EXCEPT !.cmd = tk.cmd, !.pc = pc]
    ELSE [tk EXCEPT !.pc = pc]

\* `await ctx.send(<failure text>)` followed by `return`
SendAndReturn(tk) == Suspended(tk, Len(Body(tk.cmd)) + 1)

\* the handler of task tk run from its pc to its next await, or to its end
RECURSIVE RunToAwait(_, _, _)
RunToAwait(d, f, tk) ==
    IF tk.pc > Len(Body(tk.cmd))
    THEN [data |-> d, file |-> f, task |-> Idle]
    ELSE LET st == Body(tk.cmd)[tk.pc]
             next == [tk EXCEPT !.pc = tk.pc + 1]
         IN CASE st = "send" ->
                   [data |-> d, file |-> f, task |-> Suspended(tk, tk.pc + 1)]
              [] st = "save" -> RunToAwait(d, save_data(d), next)
              [] st = "set_slots" ->
                   RunToAwait([d EXCEPT !.slots = tk.number], f, next)
              [] st = "check_capacity" ->
                   IF SlotsFull(d)
                   THEN [data |-> d, file |-> f, task |-> SendAndReturn(tk)]
                   ELSE RunToAwait(d, f, next)
              [] st = "check_name" ->
                   IF NameTaken(d, tk.team_name)
                   THEN [data |-> d, file |-> f, task |-> SendAndReturn(tk)]
                   ELSE RunToAwait(d, f, next)
              [] st = "append" ->
                   RunToAwait([d EXCEPT !.teams =
                                 Append(@, [team_name |-> tk.team_name,
                                            players |-> tk.players,
                                            captain_id |-> tk.author])],
                              f, next)
              [] st = "find_team" ->
                   IF CaptainOf(d, tk.author) = {}
                   THEN [data |-> d, file |-> f, task |-> SendAndReturn(tk)]
                   ELSE IF IsConfirmed(d, d.teams[Min(CaptainOf(d, tk.author))].team_name)
                   THEN [data |-> d, file |-> f, task |-> SendAndReturn(tk)]
                   ELSE RunToAwait(d, f, next)
              [] st = "add_confirmed" ->
                   RunToAwait([d EXCEPT !.confirmed =
                                 Append(@, d.teams[Min(CaptainOf(d, tk.author))].team_name)],
                              f, next)
              [] st = "clear" -> RunToAwait(DefaultRecord, f, next)

\* a message arrives and its handler runs to its first await
Started(t, tk) ==
    /\ tasks[t] = Idle
    /\ LET r == RunToAwait(data, file, tk)
       IN /\ data' = r.data
          /\ file' = r.file
          /\ tasks' = [tasks EXCEPT ![t] = r.task]
    /\ UNCHANGED <<inv, resp, regsSinceSet>>

conc_setslots(t, number) ==
    Started(t, [Idle EXCEPT !.cmd = "setslots", !.pc = 1, !.number = number])

conc_register(t, author, team_name, players) ==
    Started(t, [Idle EXCEPT !.cmd = "register", !.pc = 1, !.author = author,
                            !.team_name = team_name, !.players = players])

conc_confirm(t, author) ==
    Started(t, [Idle EXCEPT !.cmd = "confirm", !.pc = 1, !.author = author])

conc_reset(t) ==
    Started(t, [Idle EXCEPT !.cmd = "reset", !.pc = 1])

\* the await of task t returns and its handler runs on
conc_resume(t) ==
    /\ tasks[t] # Idle
    /\ LET r == RunToAwait(data, file, tasks[t])
       IN /\ data' = r.data
          /\ file' = r.file
          /\ tasks' = [tasks EXCEPT ![t] = r.task]
    /\ UNCHANGED <<inv, resp, regsSinceSet>>

NextConc ==
    \/ \E t \in Tasks, n \in SlotArgs : conc_setslots(t, n)
    \/ \E t \in Tasks, a \in Users, r \in RegisterArgs :
          conc_register(t, a, r.team_name, r.players)
    \/ \E t \in Tasks, a \in Users : conc_confirm(t, a)
    \/ \E t \in Tasks : conc_reset(t)
    \/ \E t \in Tasks : conc_resume(t)

SpecConc == Init /\ [][NextConc]_vars

(***************************************************************************)
(* The record store on its own: save_data and load_data applied to any     *)
(* record of the persisted layout, and load_data applied to a file that    *)
(* is absent or was cut short.                                             *)
(***************************************************************************)
JsonDecodeError == "json.JSONDecodeError"

StoreTeams ==
    { [team_name |-> <<97, 108>>, players |-> <<"p", "q">>, captain_id |-> 101],
      [team_name |-> <<65, 76>>, players |-> <<>>, captain_id |-> 102],
      [team_name |-> <<66, 101>>, players |-> <<"q", "p">>, captain_id |-> 101] }

StoreNames == { <<97, 108>>, <<65, 76>> }

SeqsUpTo2(S) == {<<>>} \cup {<<x>> : x \in S} \cup {<<x, y>> : x \in S, y \in S}

StoreRecords ==
    [slots : SlotArgs, teams : SeqsUpTo2(StoreTeams), confirmed : SeqsUpTo2(StoreNames)]

\* the file of a record cut after n tokens
CutFile(d) ==
    LET doc == json_dump(d)
    IN {SubSeq(doc, 1, n) : n \in {0, 1, 5, Len(doc) - 1}}

InitStore ==
    /\ tasks = NoTasks
    /\ data \in StoreRecords
    /\ file \in {Absent} \cup CutFile(data)
    /\ inv = NoInv
    /\ resp = NoResp
    /\ regsSinceSet = 0

store_save ==
    /\ inv' = Invocation("save_data", 0, FALSE)
    /\ file' = save_data(data)
    /\ resp' = NoResp
    /\ UNCHANGED <<data, regsSinceSet, tasks>>

store_load ==
    /\ inv' = Invocation("load_data", 0, FALSE)
    /\ IF load_raises(file)
       THEN /\ resp' = [NoResp EXCEPT !.kind = JsonDecodeError]
            /\ UNCHANGED data
       ELSE /\ resp' = NoResp
            /\ data' = load_data(file)
    /\ UNCHANGED <<file, regsSinceSet, tasks>>

NextStore == store_save \/ store_load

SpecStore == InitStore /\ [][NextStore]_vars

(***************************************************************************)
(* Properties.                                                             *)
(***************************************************************************)
\* two names are the same team name when they agree after lower-casing
SameName(a, b) ==
    /\ Len(a) = Len(b)
    /\ \A i \in 1..Len(a) :
          (IF a[i] \in 65..90 THEN a[i] + 32 ELSE a[i]) =
          (IF b[i] \in 65..90 THEN b[i] + 32 ELSE b[i])

\* some registered team has the name, up to case
Collides(d, name) == \E i \in 1..Len(d.teams) : SameName(d.teams[i].team_name, name)

\* some registered team has the author as its captain
Captains(d, author) == \E i \in 1..Len(d.teams) : d.teams[i].captain_id = author

\* C1: right after a register that appended a team, len(teams) <= slots.
C1_CapacityAfterRegister ==
    (inv.cmd = "register" /\ resp.kind = Registered)
        => Len(data.teams) <= data.slots

C1_Witness ==
    /\ inv.cmd = "register"
    /\ resp.kind = Registered
    /\ Len(data.teams) = 2
    /\ data.slots = 2

\* C2 as stated: with the slot count set to k and k registers succeeded since,
\* the next register of a further distinct name is answered "All slots are
\* full.", appends nothing, and !slots then reports k/k.
C2_Original ==
    [][ (/\ inv'.cmd = "register"
         /\ ~inv'.malformed
         /\ regsSinceSet = data.slots
         /\ ~Collides(data, inv'.team_name))
        => (/\ resp'.kind = AllSlotsFull
            /\ data'.teams = data.teams
            /\ Len(data'.teams) = data.slots
            /\ data'.slots = data.slots) ]_vars

\* C2 amended: the same, but !slots reports filled = k only for k >= 1; for
\* k = 0 it reports the number of teams registered before the slot count was
\* set to 0, and total = 0.
C2_SlotsFullAfterK ==
    [][ (/\ inv'.cmd = "register"
         /\ ~inv'.malformed
         /\ regsSinceSet = data.slots
         /\ ~Collides(data, inv'.team_name))
        => (/\ resp'.kind = AllSlotsFull
            /\ data'.teams = data.teams
            /\ data'.slots = data.slots
            /\ (data.slots >= 1 => Len(data'.teams) = data.slots)) ]_vars

C2_Witness ==
    /\ inv.cmd = "register"
    /\ resp.kind = AllSlotsFull
    /\ regsSinceSet = 2
    /\ data.slots = 2
    /\ Len(data.teams) = 2
    /\ ~Collides(data, inv.team_name)

\* C3 as stated, for a register that appended its team and a second register
\* right after it whose name is equal up to case: the second is answered with
\* the duplicate-name text and does not change the length of teams.
C3_Original ==
    [][ (/\ inv.cmd = "register"
         /\ resp.kind = Registered
         /\ inv'.cmd = "register"
         /\ SameName(inv.team_name, inv'.team_name))
        => (/\ resp'.kind = DuplicateTeamName
            /\ Len(data'.teams) = Len(data.teams)) ]_vars

\* C3 amended: a register whose name equals, up to case, the name of a team
\* still registered fails and leaves the record unchanged; the answer is the
\* duplicate-name text when len(teams) < slots and "All slots are full."
\* otherwise.
C3_DuplicateRejected ==
    [][ (inv'.cmd = "register" /\ Collides(data, inv'.team_name))
        => (/\ data' = data
            /\ file' = file
            /\ resp'.kind = (IF Len(data.teams) < data.slots
                             THEN DuplicateTeamName ELSE AllSlotsFull)) ]_vars

C3_Witness ==
    /\ inv.cmd = "register"
    /\ resp.kind = DuplicateTeamName
    /\ inv.team_name = <<65, 76>>
    /\ Len(data.teams) = 1
    /\ data.teams[1].team_name = <<97, 108>>

\* C4: no two registered teams have the same name up to case.
C4_UniqueNames ==
    \A i, j \in 1..Len(data.teams) :
        i # j => ~SameName(data.teams[i].team_name, data.teams[j].team_name)

C4_Witness ==
    /\ data.slots = 2
    /\ Len(data.teams) = 1
    /\ data.teams[1].team_name = <<65, 76>>
    /\ inv.cmd = "register"
    /\ inv.team_name = <<97, 108>>
    /\ resp.kind = DuplicateTeamName

\* C5: every confirmed name is the name of a registered team.
C5_ConfirmedAreTeams ==
    \A j \in 1..Len(data.confirmed) :
        \E i \in 1..Len(data.teams) : data.teams[i].team_name = data.confirmed[j]

C5_Witness ==
    /\ Len(data.confirmed) = 2
    /\ Len(data.teams) = 2

\* C6: the confirmed list never holds a name twice, and a confirm by the
\* captain of a team that is already confirmed is answered "already
\* confirmed" and changes nothing.
C6_ConfirmIdempotent ==
    /\ [](\A i, j \in 1..Len(data.confirmed) :
             i # j => data.confirmed[i] # data.confirmed[j])
    /\ [][ (/\ inv'.cmd = "confirm"
            /\ \E i \in 1..Len(data.teams) :
                  /\ data.teams[i].captain_id = inv'.author
                  /\ \E j \in 1..Len(data.confirmed) :
                        data.confirmed[j] = data.teams[i].team_name)
           => (/\ resp'.kind = AlreadyConfirmed
               /\ data' = data
               /\ file' = file) ]_vars

C6_Witness ==
    /\ inv.cmd = "confirm"
    /\ resp.kind = AlreadyConfirmed
    /\ Len(data.confirmed) >= 1

\* C7: a confirm by an author who is captain of no team is answered "You
\* don't have a registered team." and changes nothing.
C7_ConfirmNoTeam ==
    [][ (inv'.cmd = "confirm" /\ ~Captains(data, inv'.author))
        => (/\ resp'.kind = NoTeamForCaller
            /\ data' = data
            /\ file' = file) ]_vars

C7_Witness ==
    /\ inv.cmd = "confirm"
    /\ resp.kind = NoTeamForCaller
    /\ Len(data.teams) >= 1

\* C8: a reset by an administrator leaves the empty record, and a !slots
\* right after it reports 0/0.
C8_ResetClears ==
    [][ /\ (inv'.cmd = "reset" /\ inv'.admin)
           => (/\ data' = [slots |-> 0, teams |-> <<>>, confirmed |-> <<>>]
               /\ resp'.kind = ResetDone)
        /\ (inv.cmd = "reset" /\ inv.admin /\ inv'.cmd = "slots")
           => (/\ resp'.kind = SlotsFilled
               /\ resp'.filled = 0
               /\ resp'.total = 0) ]_vars

C8_Witness ==
    /\ inv.cmd = "reset"
    /\ inv.admin
    /\ resp.kind = ResetDone
    /\ data.teams = <<>>
    /\ file # Absent

\* C9: setslots, teams and reset by an author without the administrator
\* permission change neither the record nor the file and are answered with
\* the permission text.
C9_Unauthorized ==
    [][ (inv'.cmd \in {"setslots", "teams", "reset"} /\ ~inv'.admin)
        => (/\ data' = data
            /\ file' = file
            /\ resp'.kind = PermissionDenied) ]_vars

C9_Witness ==
    /\ inv.cmd = "reset"
    /\ ~inv.admin
    /\ resp.kind = PermissionDenied
    /\ Len(data.teams) >= 1
    /\ Len(data.confirmed) >= 1

\* C10 as stated: the slot count is never negative.
C10_SlotsNonNegative == data.slots >= 0

\* C11 as stated: in every reachable state len(teams) <= slots.
C11_Original == Len(data.teams) <= data.slots

\* C11 amended: len(teams) <= slots holds at the start and is kept by every
\* step except a setslots by an administrator whose number is below the
\* number of registered teams; register never breaks it.
C11_BoundKeptButBySetslots ==
    /\ Len(data.teams) <= data.slots
    /\ [][ (/\ Len(data.teams) <= data.slots
            /\ ~(/\ inv'.cmd = "setslots"
                 /\ inv'.admin
                 /\ ~inv'.malformed
                 /\ inv'.number < Len(data.teams)))
           => Len(data'.teams) <= data'.slots ]_vars

C11_Witness ==
    /\ inv.cmd = "setslots"
    /\ inv.admin
    /\ inv.number = 1
    /\ Len(data.teams) = 1
    /\ data.slots = 1

\* C12: between operations the file, read as load_data reads it, is the
\* record in memory.
C12_FileIsRecord == load_data(file) = data

C12_Witness ==
    /\ inv.cmd = "confirm"
    /\ resp.kind = Confirmed
    /\ file # Absent
    /\ Len(data.teams) = 2
    /\ Len(data.confirmed) = 1
    /\ data.slots = 2

\* the texts that report a failure
FailureTexts ==
    { PermissionDenied, AllSlotsFull, DuplicateTeamName, AlreadyConfirmed,
      NoTeamForCaller, CommandNotFound, ErrorOccurred }

\* C16 as stated: every message that invokes a command, whatever its
\* outcome, is answered by exactly one message to the channel, and the
\* failing cases leave the record unchanged.
C16_OneResponse ==
    [][ inv'.cmd # "none"
        => (/\ resp'.sent = 1
            /\ (resp'.kind \in FailureTexts => (data' = data /\ file' = file))) ]_vars

\* C17: but for a reset by an administrator, a step keeps the registered
\* teams and their order; teams grow only by a register that appends one
\* team whose captain is the author, and shrink only by reset.
C17_AppendOnly ==
    [][ /\ (~(inv'.cmd = "reset" /\ inv'.admin))
           => (/\ Len(data'.teams) >= Len(data.teams)
               /\ \A i \in 1..Len(data.teams) : data'.teams[i] = data.teams[i])
        /\ (data'.teams # data.teams /\ ~(inv'.cmd = "reset" /\ inv'.admin))
           => (/\ inv'.cmd = "register"
               /\ resp'.kind = Registered
               /\ Len(data'.teams) = Len(data.teams) + 1
               /\ data'.teams[Len(data'.teams)].captain_id = inv'.author
               /\ data'.teams[Len(data'.teams)].team_name = inv'.team_name) ]_vars

C17_Witness ==
    /\ inv.cmd = "register"
    /\ resp.kind = Registered
    /\ Len(data.teams) = 2
    /\ data.teams[2].captain_id = inv.author
    /\ data.teams[1].captain_id # inv.author
    /\ data.teams[2].players = <<"q", "p">>

\* C18: a setslots(n) by an administrator sets slots to n, whatever n, and
\* leaves teams and confirmed as they are.
C18_SetslotsExact ==
    [][ (inv'.cmd = "setslots" /\ inv'.admin /\ ~inv'.malformed)
        => (/\ data'.slots = inv'.number
            /\ data'.teams = data.teams
            /\ data'.confirmed = data.confirmed
            /\ resp'.kind = SlotsSet
            /\ resp'.number = inv'.number) ]_vars

C18_Witness ==
    /\ inv.cmd = "setslots"
    /\ inv.admin
    /\ inv.number = 0 - 1
    /\ data.slots = 0 - 1
    /\ Len(data.teams) = 2
    /\ Len(data.confirmed) = 1

\* C19: register tests the capacity first: with len(teams) >= slots the
\* answer is "All slots are full." even for a name that is taken, and the
\* duplicate-name text is sent exactly when the name is taken and
\* len(teams) < slots.
C19_CapacityBeforeName ==
    [][ (inv'.cmd = "register" /\ ~inv'.malformed)
        => (/\ (Len(data.teams) >= data.slots => resp'.kind = AllSlotsFull)
            /\ (resp'.kind = DuplicateTeamName
                  <=> (Collides(data, inv'.team_name)
                         /\ Len(data.teams) < data.slots))) ]_vars

C19_Witness ==
    /\ inv.cmd = "register"
    /\ resp.kind = AllSlotsFull
    /\ Collides(data, inv.team_name)
    /\ Len(data.teams) = 2
    /\ data.slots = 2

\* the earliest registered team of the author
FirstTeamOf(d, author) ==
    CHOOSE i \in 1..Len(d.teams) :
        /\ d.teams[i].captain_id = author
        /\ \A k \in 1..(i - 1) : d.teams[k].captain_id # author

\* C20: confirm acts on the earliest team of its author: it adds that
\* team's name if it is not confirmed yet and answers "already confirmed"
\* otherwise; the name of a later team of the same captain is never in
\* the confirmed list.
C20_ConfirmFirstTeamOnly ==
    /\ [](\A j \in 1..Len(data.confirmed) :
            \E i \in 1..Len(data.teams) :
               /\ data.teams[i].team_name = data.confirmed[j]
               /\ \A k \in 1..(i - 1) :
                     data.teams[k].captain_id # data.teams[i].captain_id)
    /\ [][ (inv'.cmd = "confirm" /\ Captains(data, inv'.author))
           => LET name == data.teams[FirstTeamOf(data, inv'.author)].team_name
              IN IF \E j \in 1..Len(data.confirmed) : data.confirmed[j] = name
                 THEN /\ resp'.kind = AlreadyConfirmed
                      /\ data' = data
                 ELSE /\ resp'.kind = Confirmed
                      /\ resp'.team_name = name
                      /\ data'.confirmed = Append(data.confirmed, name)
                      /\ data'.teams = data.teams ]_vars

C20_Witness ==
    /\ inv.cmd = "confirm"
    /\ resp.kind = AlreadyConfirmed
    /\ Len(data.teams) = 2
    /\ data.teams[1].captain_id = inv.author
    /\ data.teams[2].captain_id = inv.author
    /\ data.confirmed = <<data.teams[1].team_name>>

\* C13: load_data right after save_data(r) returns r, for every record r
\* of the persisted layout: team, player and confirmed order included.
C13_RoundTrip ==
    [][ (inv.cmd = "save_data" /\ inv'.cmd = "load_data")
        => (/\ resp'.kind # JsonDecodeError
            /\ data' = data) ]_vars

C13_Witness ==
    /\ inv.cmd = "load_data"
    /\ resp.kind = "none"
    /\ file # Absent
    /\ data.slots = 0 - 1
    /\ Len(data.teams) = 2
    /\ data.teams[1].players = <<"p", "q">>
    /\ data.teams[2].players = <<"q", "p">>
    /\ data.confirmed = << <<65, 76>>, <<97, 108>> >>

\* the file is the document of no record
Unreadable(f) == f # Absent /\ \A r \in StoreRecords : f # json_dump(r)

\* C14 as stated: load_data returns the default record when the file is
\* absent and when it is there but cannot be parsed, and raises nothing.
C14_LoadDefaults ==
    [][ (inv'.cmd = "load_data" /\ (file = Absent \/ Unreadable(file)))
        => (/\ resp'.kind # JsonDecodeError
            /\ data' = [slots |-> 0, teams |-> <<>>, confirmed |-> <<>>]) ]_vars

\* C15: with the handlers interleaved at their awaits, a register that
\* appends leaves len(teams) <= slots, the team names stay unique up to
\* case, and at every await the file holds the record in memory.
C15_AtomicHandlers ==
    /\ [](\A i, j \in 1..Len(data.teams) :
            i # j => ~SameName(data.teams[i].team_name, data.teams[j].team_name))
    /\ [](file # Absent => json_load(file) = data)
    /\ [][ Len(data'.teams) > Len(data.teams)
           => (/\ Len(data'.teams) = Len(data.teams) + 1
               /\ Len(data'.teams) <= data'.slots) ]_vars

C15_Witness ==
    /\ tasks[1].cmd = "register"
    /\ tasks[2].cmd = "register"
    /\ Len(data.teams) = 2
    /\ data.slots = 2
    /\ Len(data.confirmed) = 1

====
